---------------------------- MODULE Spec2Model ----------------------------
(***************************************************************************)
(* zipref: builds a ZIP64 archive from a list of regular files, cloning    *)
(* (FICLONERANGE) each file's data behind an aligned local header and      *)
(* falling back to a chunked copy when the clone is rejected.              *)
(*                                                                         *)
(* The model follows src/zipref.py: the destination file is a sequence of  *)
(* bytes, headers are packed field by field as struct.pack does, and       *)
(* execute() is cut into one action per system call it makes.              *)
(***************************************************************************)
EXTENDS Integers, Sequences, FiniteSets, TLC

(***************************************************************************)
(* Bounds of the model.                                                    *)
(***************************************************************************)
\* longest path list handed to execute
MaxPaths == 2
\* alignments 1..MaxAlign are tried (powers of two and others) ...
MaxAlign == 4
\* ... and one alignment larger than a local header
BigAlign == 64
\* chunk_size of chunk_iterator, scaled down from 63356 so that a file of a
\* few bytes needs several reads
ChunkSize == 2

(***************************************************************************)
(* Arithmetic helpers.                                                     *)
(***************************************************************************)
Min(a, b) == IF a <= b THEN a ELSE b

Max(a, b) == IF a >= b THEN a ELSE b

\* x | y on naturals, bit by bit
BitOrNat[x \in Nat, y \in Nat] ==
    IF x = 0 THEN y
    ELSE IF y = 0 THEN x
    ELSE Max(x % 2, y % 2) + 2 * BitOrNat[x \div 2, y \div 2]

\* x & ~y on naturals, bit by bit
BitAndNotNat[x \in Nat, y \in Nat] ==
    IF x = 0 THEN 0
    ELSE (IF x % 2 = 1 /\ y % 2 = 0 THEN 1 ELSE 0)
         + 2 * BitAndNotNat[x \div 2, y \div 2]

\* x ^ y on naturals, bit by bit
BitXorNat[x \in Nat, y \in Nat] ==
    IF x = 0 THEN y
    ELSE IF y = 0 THEN x
    ELSE ((x + y) % 2) + 2 * BitXorNat[x \div 2, y \div 2]

\* Python's x | y for an int x of either sign and y >= 0 (two's complement:
\* x | y = ~(~x & ~y), with ~x = -x - 1)
BitOr(x, y) ==
    IF x >= 0 THEN BitOrNat[x, y]
    ELSE -(BitAndNotNat[-x - 1, y]) - 1

\* x >> 1 and x << n on naturals
ShiftRight1(x) == x \div 2

RECURSIVE ShiftLeft(_, _)
ShiftLeft(x, n) == IF n = 0 THEN x ELSE ShiftLeft(2 * x, n - 1)

(***************************************************************************)
(* struct.pack, little-endian ('<'): an unsigned field of w bytes.         *)
(***************************************************************************)
RECURSIVE LE(_, _)
LE(n, w) == IF w = 0 THEN <<>> ELSE <<n % 256>> \o LE(n \div 256, w - 1)

\* the value of a little-endian field (struct.unpack)
RECURSIVE FromLE(_)
FromLE(b) == IF b = <<>> THEN 0 ELSE b[1] + 256 * FromLE(Tail(b))

\* 0xffff and 0xffffffff, the "see the ZIP64 field" sentinels
Sentinel16 == <<255, 255>>

Sentinel32 == <<255, 255, 255, 255>>

(***************************************************************************)
(* zlib.crc32(data, crc).  The 32-bit register is kept as the pair         *)
(* <<high 16 bits, low 16 bits>>, since 2^32 - 1 is beyond TLC's integers. *)
(***************************************************************************)
\* 0xEDB88320, the reflected CRC-32 polynomial
CrcPoly == <<60856, 33568>>

CrcZero == <<0, 0>>

\* c ^ 0xffffffff
CrcNot(c) == <<65535 - c[1], 65535 - c[2]>>

\* the values of the register
CrcWords == (0 .. 65535) \X (0 .. 65535)

\* one bit of the division: shift right, subtract the polynomial if a one
\* fell out
CrcShift[c \in CrcWords] ==
    LET hi == c[1] \div 2
        lo == (c[2] \div 2) + 32768 * (c[1] % 2)
    IN  IF c[2] % 2 = 1
        THEN <<BitXorNat[hi, CrcPoly[1]], BitXorNat[lo, CrcPoly[2]]>>
        ELSE <<hi, lo>>

RECURSIVE CrcShifts(_, _)
CrcShifts(c, n) == IF n = 0 THEN c ELSE CrcShifts(CrcShift[c], n - 1)

\* fold one byte into the register
CrcByte(c, b) == CrcShifts(<<c[1], BitXorNat[c[2], b]>>, 8)

RECURSIVE CrcBytes(_, _)
CrcBytes(c, data) ==
    IF data = <<>> THEN c ELSE CrcBytes(CrcByte(c, Head(data)), Tail(data))

crc32(data, crc) == CrcNot(CrcBytes(CrcNot(crc), data))

\* the register packed as an 'I' field
CrcField(c) == LE(c[2], 2) \o LE(c[1], 2)

(***************************************************************************)
(* The file system the run sees.  A path is a Python str, a sequence of    *)
(* code points.  kind is what lstat reports ("missing": lstat raises);     *)
(* st_size is the size lstat reports, data the bytes read returns, tm the  *)
(* local time of st_mtime.  "s" is a file as sysfs serves them: a regular  *)
(* file whose st_size is larger than what can be read from it.             *)
(***************************************************************************)
Tm(y, mo, d, h, mi, s) ==
    [tm_year |-> y, tm_mon |-> mo, tm_mday |-> d,
     tm_hour |-> h, tm_min |-> mi, tm_sec |-> s]

FileSystem ==
    { [name |-> <<97>>, kind |-> "reg", st_size |-> 0, data |-> <<>>,
       tm |-> Tm(1980, 1, 1, 0, 0, 0)],
      [name |-> <<98, 233>>, kind |-> "reg", st_size |-> 1, data |-> <<120>>,
       tm |-> Tm(2024, 2, 29, 23, 59, 59)],
      [name |-> <<99, 99, 99>>, kind |-> "reg", st_size |-> 3,
       data |-> <<1, 2, 3>>, tm |-> Tm(2107, 12, 31, 12, 30, 1)],
      [name |-> <<111>>, kind |-> "reg", st_size |-> 1, data |-> <<7>>,
       tm |-> Tm(1979, 12, 31, 23, 59, 58)],
      [name |-> <<115>>, kind |-> "reg", st_size |-> 2, data |-> <<48>>,
       tm |-> Tm(2000, 6, 15, 8, 0, 0)],
      [name |-> <<100>>, kind |-> "dir", st_size |-> 3, data |-> <<>>,
       tm |-> Tm(2000, 6, 15, 8, 0, 0)],
      [name |-> <<108>>, kind |-> "lnk", st_size |-> 1, data |-> <<>>,
       tm |-> Tm(2000, 6, 15, 8, 0, 0)],
      [name |-> <<109>>, kind |-> "missing", st_size |-> 0, data |-> <<>>,
       tm |-> Tm(2000, 6, 15, 8, 0, 0)] }

PathNames == {f.name : f \in FileSystem}

\* os.lstat(path)
lstat(path) == CHOOSE f \in FileSystem : f.name = path

\* stat.S_ISREG(st.st_mode)
S_ISREG(st) == st.kind = "reg"

(***************************************************************************)
(* Binary header codec.                                                    *)
(***************************************************************************)
\* one code point of str.encode('utf-8', errors='surrogateescape')
EncodeChar(cp) ==
    IF cp < 128 THEN <<cp>>
    ELSE IF cp < 2048 THEN <<192 + (cp \div 64), 128 + (cp % 64)>>
    ELSE IF cp >= 56448 /\ cp <= 56575 THEN <<cp - 56320>>
    ELSE IF cp < 65536
         THEN <<224 + (cp \div 4096), 128 + ((cp \div 64) % 64), 128 + (cp % 64)>>
    ELSE <<240 + (cp \div 262144), 128 + ((cp \div 4096) % 64),
           128 + ((cp \div 64) % 64), 128 + (cp % 64)>>

RECURSIVE encode(_)
encode(name) ==
    IF name = <<>> THEN <<>> ELSE EncodeChar(Head(name)) \o encode(Tail(name))

\* a date whose month field is one bit short of its place
get_dos_date_time_month4(tm) ==
    LET d == BitOr(BitOr(ShiftLeft(tm.tm_year - 1980, 9), ShiftLeft(tm.tm_mon, 4)),
                   tm.tm_mday)
        t == BitOr(BitOr(ShiftLeft(tm.tm_hour, 11), ShiftLeft(tm.tm_min, 5)),
                   ShiftRight1(tm.tm_sec))
    IN  <<d, t>>

get_dos_date_time(tm) ==
    LET d == BitOr(BitOr(ShiftLeft(tm.tm_year - 1980, 9), ShiftLeft(tm.tm_mon, 5)),
                   tm.tm_mday)
        t == BitOr(BitOr(ShiftLeft(tm.tm_hour, 11), ShiftLeft(tm.tm_min, 5)),
                   ShiftRight1(tm.tm_sec))
    IN  <<d, t>>

\* struct.pack raises struct.error unless every 'H' field is in 0..65535
PackFits(name, st) ==
    LET dos_tm == get_dos_date_time(st.tm)
    IN  /\ dos_tm[1] \in 0 .. 65535
        /\ dos_tm[2] \in 0 .. 65535
        /\ Len(encode(name)) <= 65535

make_file_header(name, st, crc) ==
    LET dos_tm == get_dos_date_time(st.tm)
        bname == encode(name)
        extra == LE(1, 2) \o LE(16, 2) \o LE(st.st_size, 8) \o LE(st.st_size, 8)
        fixed_header ==
            LE(67324752, 4) \o LE(45, 2) \o LE(2048, 2) \o LE(0, 2)
            \o LE(dos_tm[2], 2) \o LE(dos_tm[1], 2) \o CrcField(crc)
            \o Sentinel32 \o Sentinel32 \o LE(Len(bname), 2) \o LE(Len(extra), 2)
    IN  fixed_header \o bname \o extra

make_central_header(name, st, crc, offset) ==
    LET dos_tm == get_dos_date_time(st.tm)
        bname == encode(name)
        extra == LE(1, 2) \o LE(24, 2) \o LE(st.st_size, 8) \o LE(st.st_size, 8)
                 \o LE(offset, 8)
        fixed_header ==
            LE(33639248, 4) \o LE(45, 2) \o LE(45, 2) \o LE(2048, 2) \o LE(0, 2)
            \o LE(dos_tm[2], 2) \o LE(dos_tm[1], 2) \o CrcField(crc)
            \o Sentinel32 \o Sentinel32 \o LE(Len(bname), 2) \o LE(Len(extra), 2)
            \o LE(0, 2) \o LE(0, 2) \o LE(0, 2) \o LE(0, 4) \o Sentinel32
    IN  fixed_header \o bname \o extra

Zip64EndOfCentralDirectoryRecord(count, size, start) ==
    LE(101075792, 4) \o LE(44, 8) \o LE(45, 2) \o LE(45, 2) \o LE(0, 4)
    \o LE(0, 4) \o LE(count, 8) \o LE(count, 8) \o LE(size, 8) \o LE(start, 8)

Zip64EndOfCentralDirectoryLocator(at) ==
    LE(117853008, 4) \o LE(0, 4) \o LE(at, 8) \o LE(1, 4)

ZipEndOfCentralDirectoryRecord ==
    LE(101010256, 4) \o LE(0, 2) \o LE(0, 2) \o Sentinel16 \o Sentinel16
    \o Sentinel32 \o Sentinel32 \o LE(0, 2)

(***************************************************************************)
(* Python integers of any size.  TLC's integers end at 2^31 - 1 and file   *)
(* offsets at 2^63 - 1, so an offset is also kept as a wide number: its    *)
(* digits in base 2^15, lowest first, without leading zeros.               *)
(***************************************************************************)
Limb == 32768

\* the wide numbers
Wide == Seq(0 .. Limb - 1)

ToWide[n \in Nat] ==
    IF n = 0 THEN <<>> ELSE <<n % Limb>> \o ToWide[n \div Limb]

\* the value of a wide number that fits TLC's integers
FromWide[w \in Wide] ==
    IF w = <<>> THEN 0 ELSE w[1] + Limb * FromWide[Tail(w)]

WTrim[w \in Wide] ==
    IF w # <<>> /\ w[Len(w)] = 0 THEN WTrim[SubSeq(w, 1, Len(w) - 1)] ELSE w

WDigit(w, i) == IF i <= Len(w) THEN w[i] ELSE 0

\* x + y
WAdd[x \in Wide, y \in Wide] ==
    LET sum[i \in 0 .. Max(Len(x), Len(y))] ==
            \* <<digits 1..i, carry>>
            IF i = 0 THEN <<<<>>, 0>>
            ELSE LET s == WDigit(x, i) + WDigit(y, i) + sum[i - 1][2]
                 IN  <<Append(sum[i - 1][1], s % Limb), s \div Limb>>
        top == sum[Max(Len(x), Len(y))]
    IN  WTrim[Append(top[1], top[2])]

\* x - y, for x >= y
WSub[x \in Wide, y \in Wide] ==
    LET dif[i \in 0 .. Len(x)] ==
            \* <<digits 1..i, borrow>>
            IF i = 0 THEN <<<<>>, 0>>
            ELSE LET d == WDigit(x, i) - WDigit(y, i) - dif[i - 1][2]
                 IN  <<Append(dif[i - 1][1], d % Limb),
                       IF d < 0 THEN 1 ELSE 0>>
    IN  WTrim[dif[Len(x)][1]]

\* x * a, for 0 <= a < 2^15
WMul[x \in Wide, a \in Nat] ==
    LET mul[i \in 0 .. Len(x)] ==
            IF i = 0 THEN <<<<>>, 0>>
            ELSE LET p == x[i] * a + mul[i - 1][2]
                 IN  <<Append(mul[i - 1][1], p % Limb), p \div Limb>>
    IN  WTrim[Append(mul[Len(x)][1], mul[Len(x)][2])]

\* divmod(x, a), for 0 < a < 2^15: <<quotient, remainder>>, the long division
\* from the highest digit down
WDivMod[x \in Wide, a \in Nat] ==
    LET div[i \in 1 .. Len(x) + 1] ==
            \* <<quotient digits i..Len(x), remainder>>
            IF i = Len(x) + 1 THEN <<<<>>, 0>>
            ELSE LET cur == div[i + 1][2] * Limb + x[i]
                 IN  <<<<cur \div a>> \o div[i + 1][1], cur % a>>
    IN  <<WTrim[div[1][1]], div[1][2]>>

\* x < y
WLess(x, y) ==
    \/ Len(x) < Len(y)
    \/ /\ Len(x) = Len(y)
       /\ \E i \in 1 .. Len(x) :
            /\ x[i] < y[i]
            /\ \A j \in i + 1 .. Len(x) : x[j] = y[j]

WMax(x, y) == IF WLess(x, y) THEN y ELSE x

WOdd(x) == x # <<>> /\ x[1] % 2 = 1

\* int.bit_length()
BitLength[n \in Nat] == IF n = 0 THEN 0 ELSE 1 + BitLength[n \div 2]

WBitLength(x) ==
    IF x = <<>> THEN 0 ELSE 15 * (Len(x) - 1) + BitLength[x[Len(x)]]

\* x << n
WShiftLeft[x \in Wide, n \in Nat] ==
    IF n = 0 THEN x ELSE WShiftLeft[WMul[x, 2], n - 1]

(***************************************************************************)
(* int(n / a) of line 94: n / a is the true division of two ints, the     *)
(* IEEE 754 double nearest to the quotient (53 significant bits, ties to   *)
(* even), and int() cuts its fraction off.                                 *)
(***************************************************************************)
\* significant bits of a double
Mantissa == 53

\* x >> n with the bits shifted out: <<x >> n, the last bit shifted out,
\* whether a one was shifted out before it or lies below (sticky)>>
WShiftRight[x \in Wide, n \in Nat, guard \in BOOLEAN, sticky \in BOOLEAN] ==
    IF n = 0 THEN <<x, guard, sticky>>
    ELSE WShiftRight[WDivMod[x, 2][1], n - 1, WOdd(x), sticky \/ guard]

TrueDivInt[n \in Wide, a \in Nat] ==
    LET qr == WDivMod[n, a]
        q == qr[1]
        r == qr[2]
        bits == WBitLength(q)
    IN  IF bits > Mantissa
        THEN \* the double is a multiple of 2^(bits - 53): round q + r/a to it
             LET s == WShiftRight[q, bits - Mantissa, FALSE, r > 0]
                 up == s[2] /\ (s[3] \/ WOdd(s[1]))
             IN  WShiftLeft[IF up THEN WAdd[s[1], <<1>>] ELSE s[1],
                            bits - Mantissa]
        ELSE IF bits = Mantissa
        THEN \* the doubles are the integers: round r/a to 0 or 1
             IF 2 * r > a \/ (2 * r = a /\ WOdd(q)) THEN WAdd[q, <<1>>] ELSE q
        ELSE \* the doubles are t = 2^(53 - bits) to the unit; the quotient
             \* reaches q + 1 when (q + 1) - n/a <= 1/(2t), which a < 2^15
             \* excludes for t >= 2^15
             IF Mantissa - bits < 15
                /\ 2 * ShiftLeft(1, Mantissa - bits) * (a - r) <= a
             THEN WAdd[q, <<1>>]
             ELSE q

(***************************************************************************)
(* Block placement and the destination file.                               *)
(***************************************************************************)
\* a placement that aligns the header instead of the data
AlignOffsetOfHeader(eof, hlen, align) ==
    ((eof + align - 1) \div align) * align

\* (int((offset + len(header) + alignment - 1) / alignment) * alignment)
\*   - len(header)
\* for an end of file of any size; the quotient is a float cut by int()
AlignOffsetWide[eof \in Wide, hlen \in Nat, align \in Nat] ==
    WSub[WMul[TrueDivInt[WAdd[eof, ToWide[hlen + align - 1]], align], align],
         ToWide[hlen]]

\* the same for the destinations that are kept byte by byte
AlignOffset(eof, hlen, align) ==
    FromWide[AlignOffsetWide[ToWide[eof], hlen, align]]

\* the file after bytes b are stored at offset pos (0-based); a gap between
\* the old end of file and pos reads as zeros
WriteAt(file, pos, b) ==
    IF b = <<>> THEN file
    ELSE [j \in 1 .. Max(Len(file), pos + Len(b)) |->
            IF j > pos /\ j <= pos + Len(b) THEN b[j - pos]
            ELSE IF j <= Len(file) THEN file[j]
            ELSE 0]

\* bytes [pos, pos + n) of a file
ReadAt(file, pos, n) == SubSeq(file, pos + 1, pos + n)

(***************************************************************************)
(* State of one run of execute(fd, paths, alignment).                      *)
(***************************************************************************)
VARIABLES
    paths,          \* the caller's path sequence
    alignment,      \* the alignment argument
    pc,             \* where execute stands
    idx,            \* index in paths of the path the for loop is at
    openFds,        \* open source descriptors, named by the index they serve
    srcPos,         \* read position of fd2
    length,         \* chunk_iterator's remaining length
    data,           \* chunk_iterator's last read
    crc,            \* running checksum of the file at hand
    header,         \* local header of the file at hand
    offset,         \* header offset of the file at hand
    cloned,         \* whether the file at hand was cloned
    dst,            \* bytes of the destination file
    dstPos,         \* file position of the destination descriptor fd
    datas,          \* entries collected so far
    k,              \* index in datas of the central-directory loop
    central_start,
    central_end,
    err,            \* the call whose exception is propagating, or "none"
    log,            \* history: the calls that changed or tried to change dst
    \* the functions of the program called by themselves (idle during a run
    \* of execute)
    mtime,          \* get_dos_date_time: time.localtime(t)
    dosDateTime,    \* get_dos_date_time: the pair returned
    iter,           \* chunk_iterator: the position and length it was given
    yielded,        \* chunk_iterator: the chunks yielded so far
    \* the placement of lines 93-106 on a destination of any size, of which
    \* only the extent is kept
    wEof,           \* end of file of the destination, a wide number
    wPos,           \* file position of fd, a wide number
    wEntry,         \* header length, size and header offset of the entry
    wLog            \* history: the regions written or cloned

vars ==
    <<paths, alignment, pc, idx, openFds, srcPos, length, data, crc, header,
      offset, cloned, dst, dstPos, datas, k, central_start, central_end, err,
      log, mtime, dosDateTime, iter, yielded, wEof, wPos, wEntry, wLog>>

inputs == <<paths, alignment>>

\* what a call that returns leaves alone
args == <<paths, alignment, err>>

source == <<openFds, srcPos, length, data>>

entry == <<crc, header, offset, cloned>>

dest == <<dst, dstPos, log>>

directory == <<k, central_start, central_end>>

\* what a run of execute leaves alone: the state of the functions called by
\* themselves
aside == <<mtime, dosDateTime, iter, yielded, wEof, wPos, wEntry, wLog>>

\* the value of aside during a run of execute
DosIdle ==
    /\ mtime = Tm(1980, 1, 1, 0, 0, 0)
    /\ dosDateTime = <<0, 0>>

ChunkIdle ==
    /\ iter = [position |-> 0, length |-> 0]
    /\ yielded = <<>>

PlaceIdle ==
    /\ wEof = <<>>
    /\ wPos = <<>>
    /\ wEntry = [hlen |-> 0, size |-> <<>>, offset |-> <<>>]
    /\ wLog = <<>>

AsideIdle == DosIdle /\ ChunkIdle /\ PlaceIdle

dos == <<mtime, dosDateTime>>

place == <<wEof, wPos, wEntry, wLog>>

Alignments == (1 .. MaxAlign) \cup {BigAlign}

PathLists == UNION {[1 .. n -> PathNames] : n \in 0 .. MaxPaths}

Init ==
    /\ paths \in PathLists
    /\ alignment \in Alignments
    /\ pc = "lstat"
    /\ idx = 1
    /\ openFds = {}
    /\ srcPos = 0
    /\ length = 0
    /\ data = <<>>
    /\ crc = CrcZero
    /\ header = <<>>
    /\ offset = 0
    /\ cloned = FALSE
    /\ dst = <<>>
    /\ dstPos = 0
    /\ datas = <<>>
    /\ k = 1
    /\ central_start = 0
    /\ central_end = 0
    /\ err = "none"
    /\ log = <<>>
    /\ AsideIdle

\* the stat result of the path at hand
st == lstat(paths[idx])

\* a record of the history
Event(op, at, n) == [op |-> op, at |-> at, len |-> n, path |-> idx]

\* a read that asks for a whole chunk whatever is left of the range
ReadSizesWholeChunk ==
    LET avail == Len(st.data) - srcPos
        want == ChunkSize
    IN  IF avail <= 0 THEN {0} ELSE 1 .. Min(want, avail)

\* os.read(fd2, min(chunk_size, length)) returns between one byte and the
\* bytes asked for, and nothing at the end of the file
ReadSizes ==
    LET avail == Len(st.data) - srcPos
        want == Min(ChunkSize, length)
    IN  IF avail <= 0 THEN {0} ELSE 1 .. Min(want, avail)

\* an exception that is swallowed: the run records the entry and goes on
RaiseSwallowed(e) ==
    /\ err' = e
    /\ pc' = "close"
    /\ openFds' = openFds

\* an exception that ends the run and leaves fd2 open
RaiseLeaking(e) ==
    /\ err' = e
    /\ pc' = "aborted"
    /\ openFds' = openFds

\* an exception raised by call e leaves execute; when it passes the try block
\* of lines 89-108, fd2 is closed on the way out (before line 88 and after
\* line 108 no source descriptor is open)
Raise(e) ==
    /\ err' = e
    /\ pc' = "aborted"
    /\ openFds' = openFds \ {idx}

(***************************************************************************)
(* Collecting: lines 81-112.                                               *)
(***************************************************************************)
\* line 82: lstat of a path that does not exist raises
LstatFail ==
    /\ pc = "lstat" /\ idx <= Len(paths)
    /\ st.kind = "missing"
    /\ Raise("lstat")
    /\ UNCHANGED <<inputs, idx, srcPos, length, data, entry, dest, datas,
                   directory, aside>>

\* a path that is no regular file ends the loop over the paths
SkipNonRegularBreaks ==
    /\ pc = "lstat" /\ idx <= Len(paths)
    /\ st.kind # "missing" /\ ~S_ISREG(st)
    /\ idx' = Len(paths) + 1
    /\ UNCHANGED <<args, pc, source, entry, dest, datas, directory, aside>>

\* lines 83-84: a path that is no regular file is passed over
SkipNonRegular ==
    /\ pc = "lstat" /\ idx <= Len(paths)
    /\ st.kind # "missing" /\ ~S_ISREG(st)
    /\ idx' = idx + 1
    /\ UNCHANGED <<args, pc, source, entry, dest, datas, directory, aside>>

\* a run that writes the header first and leaves the checksum for later
OpenSourceHeaderFirst ==
    /\ pc = "lstat" /\ idx <= Len(paths)
    /\ S_ISREG(st)
    /\ openFds' = openFds \cup {idx}
    /\ srcPos' = 0
    /\ length' = st.st_size
    /\ data' = <<>>
    /\ crc' = CrcZero
    /\ pc' = "header"
    /\ UNCHANGED <<args, idx, header, offset, cloned, dest, datas, directory,
                   aside>>

\* lines 88-90: open the file and start chunk_iterator(fd2, 0, st.st_size)
OpenSource ==
    /\ pc = "lstat" /\ idx <= Len(paths)
    /\ S_ISREG(st)
    /\ openFds' = openFds \cup {idx}
    /\ srcPos' = 0
    /\ length' = st.st_size
    /\ data' = <<>>
    /\ crc' = CrcZero
    /\ pc' = IF st.st_size = 0 THEN "header" ELSE "crc"
    /\ UNCHANGED <<args, idx, header, offset, cloned, dest, datas, directory,
                   aside>>

\* line 88: os.open raises
OpenFail ==
    /\ pc = "lstat" /\ idx <= Len(paths)
    /\ S_ISREG(st)
    /\ Raise("open")
    /\ UNCHANGED <<inputs, idx, srcPos, length, data, entry, dest, datas,
                   directory, aside>>

\* a checksum pass that sums each chunk by itself
CrcReadPerChunk ==
    /\ pc = "crc"
    /\ \E n \in ReadSizes :
        /\ data' = ReadAt(st.data, srcPos, n)
        /\ srcPos' = srcPos + n
        /\ length' = length - n
        /\ crc' = IF n = 0 THEN crc ELSE crc32(data', CrcZero)
        /\ pc' = IF length' = 0 THEN "header" ELSE "crc"
    /\ UNCHANGED <<args, idx, openFds, header, offset, cloned, dest, datas,
                   directory, aside>>

\* lines 25-30 under line 45: one read of the checksum pass
CrcRead ==
    /\ pc = "crc"
    /\ \E n \in ReadSizes :
        /\ data' = ReadAt(st.data, srcPos, n)
        /\ srcPos' = srcPos + n
        /\ length' = length - n
        /\ crc' = IF n = 0 THEN crc ELSE crc32(data', crc)
        /\ pc' = IF length' = 0 THEN "header" ELSE "crc"
    /\ UNCHANGED <<args, idx, openFds, header, offset, cloned, dest, datas,
                   directory, aside>>

\* line 26: os.read raises during the checksum pass
CrcReadFail ==
    /\ pc = "crc"
    /\ Raise("read")
    /\ UNCHANGED <<inputs, idx, srcPos, length, data, entry, dest, datas,
                   directory, aside>>

\* a header write that leaves the position of fd at the header's start
WriteHeaderInPlace ==
    /\ pc = "header"
    /\ PackFits(paths[idx], st)
    /\ header' = make_file_header(paths[idx], st, crc)
    /\ offset' = AlignOffset(Len(dst), Len(header'), alignment)
    /\ dst' = WriteAt(dst, offset', header')
    /\ dstPos' = offset'
    /\ log' = Append(log, Event("header", offset', Len(header')))
    /\ pc' = "clone"
    /\ UNCHANGED <<args, idx, source, crc, cloned, datas, directory, aside>>

\* lines 91-97: build the local header, place it, write it
WriteHeader ==
    /\ pc = "header"
    /\ PackFits(paths[idx], st)
    /\ header' = make_file_header(paths[idx], st, crc)
    /\ offset' = AlignOffset(Len(dst), Len(header'), alignment)
    /\ dst' = WriteAt(dst, offset', header')
    /\ dstPos' = offset' + Len(header')
    /\ log' = Append(log, Event("header", offset', Len(header')))
    /\ pc' = "clone"
    /\ UNCHANGED <<args, idx, source, crc, cloned, datas, directory, aside>>

\* line 91: struct.pack raises on a field that does not fit
HeaderPackFail ==
    /\ pc = "header"
    /\ ~PackFits(paths[idx], st)
    /\ Raise("pack")
    /\ UNCHANGED <<inputs, idx, srcPos, length, data, entry, dest, datas,
                   directory, aside>>

\* line 97: os.write raises; the header was built and fd was positioned
HeaderWriteFail ==
    /\ pc = "header"
    /\ PackFits(paths[idx], st)
    /\ header' = make_file_header(paths[idx], st, crc)
    /\ offset' = AlignOffset(Len(dst), Len(header'), alignment)
    /\ dstPos' = offset'
    /\ Raise("write")
    /\ UNCHANGED <<inputs, idx, srcPos, length, data, crc, cloned, dst, log,
                   datas, directory, aside>>

\* lines 101-102: the clone request is granted; the range appears in the
\* destination and the position of fd stays behind the header
CloneGranted ==
    /\ pc = "clone"
    /\ \E range \in {ReadAt(st.data, 0, st.st_size)} :
        dst' = WriteAt(dst, offset + Len(header), range)
    /\ log' = Append(log, Event("clone", offset + Len(header), st.st_size))
    /\ cloned' = TRUE
    /\ pc' = "close"
    /\ UNCHANGED <<args, idx, source, crc, header, offset, dstPos, datas,
                   directory, aside>>

\* a rejected clone that is let through as an error
CloneRejectedFatal ==
    /\ pc = "clone"
    /\ log' = Append(log, Event("rejected", offset + Len(header), st.st_size))
    /\ Raise("clone")
    /\ UNCHANGED <<inputs, idx, srcPos, length, data, entry, dst, dstPos,
                   datas, directory, aside>>

\* lines 103-105: the clone request is rejected with OSError; the copy starts
\* chunk_iterator(fd2, 0, st.st_size) afresh
CloneRejected ==
    /\ pc = "clone"
    /\ log' = Append(log, Event("rejected", offset + Len(header), st.st_size))
    /\ srcPos' = 0
    /\ length' = st.st_size
    /\ cloned' = IF st.st_size = 0 THEN FALSE ELSE cloned
    /\ pc' = IF st.st_size = 0 THEN "close" ELSE "copy"
    /\ UNCHANGED <<args, idx, openFds, data, crc, header, offset, dst,
                   dstPos, datas, directory, aside>>

\* lines 25-30 under line 76: one read of the copy and the write of what it
\* returned, at the position of fd
CopyChunk ==
    /\ pc = "copy"
    /\ \E n \in ReadSizes :
        /\ data' = ReadAt(st.data, srcPos, n)
        /\ srcPos' = srcPos + n
        /\ length' = length - n
        /\ dst' = WriteAt(dst, dstPos, data')
        /\ dstPos' = dstPos + n
        /\ log' = IF n = 0 THEN log ELSE Append(log, Event("copy", dstPos, n))
        /\ cloned' = IF length' = 0 THEN FALSE ELSE cloned
        /\ pc' = IF length' = 0 THEN "close" ELSE "copy"
    /\ UNCHANGED <<args, idx, openFds, crc, header, offset, datas, directory,
                   aside>>

\* line 26 or line 76: os.read or os.write raises during the copy
CopyFail ==
    /\ pc = "copy"
    /\ \E e \in {"read", "write"} : Raise(e)
    /\ UNCHANGED <<inputs, idx, srcPos, length, data, entry, dest, datas,
                   directory, aside>>

\* entries recorded newest first
CloseSourcePrepend ==
    /\ pc = "close"
    /\ openFds' = openFds \ {idx}
    /\ datas' = <<[path |-> paths[idx], st |-> st, crc |-> crc,
                   offset |-> offset]>> \o datas
    /\ idx' = idx + 1
    /\ pc' = "lstat"
    /\ UNCHANGED <<args, srcPos, length, data, entry, dest, directory, aside>>

\* lines 108-112: fd2 is closed and the entry is recorded
CloseSource ==
    /\ pc = "close"
    /\ openFds' = openFds \ {idx}
    /\ datas' = Append(datas, [path |-> paths[idx], st |-> st, crc |-> crc,
                               offset |-> offset])
    /\ idx' = idx + 1
    /\ pc' = "lstat"
    /\ UNCHANGED <<args, srcPos, length, data, entry, dest, directory, aside>>

(***************************************************************************)
(* Writing the directory and the trailer: lines 114-127.                   *)
(***************************************************************************)
\* a directory that starts at the position of fd (SEEK_CUR), not at the end
\* of the file
CentralStartAtPosition ==
    /\ pc = "lstat" /\ idx > Len(paths)
    /\ central_start' = dstPos
    /\ k' = 1
    /\ pc' = "central"
    /\ UNCHANGED <<args, idx, source, entry, dest, datas, central_end, aside>>

\* line 114: the path list is exhausted
CentralStart ==
    /\ pc = "lstat" /\ idx > Len(paths)
    /\ central_start' = Len(dst)
    /\ dstPos' = Len(dst)
    /\ k' = 1
    /\ pc' = "central"
    /\ UNCHANGED <<args, idx, source, entry, dst, log, datas, central_end,
                   aside>>

\* lines 115-117: one central header
WriteCentral ==
    /\ pc = "central" /\ k <= Len(datas)
    /\ \E h \in {make_central_header(datas[k].path, datas[k].st, datas[k].crc,
                                       datas[k].offset)} :
        /\ dst' = WriteAt(dst, dstPos, h)
        /\ dstPos' = dstPos + Len(h)
        /\ log' = Append(log, [op |-> "central", at |-> dstPos,
                               len |-> Len(h), path |-> k])
    /\ k' = k + 1
    /\ UNCHANGED <<args, pc, idx, source, entry, datas, central_start,
                   central_end, aside>>

\* a run that goes from the directory straight to the locator
CentralEndSkippingRecord ==
    /\ pc = "central" /\ k > Len(datas)
    /\ central_end' = dstPos
    /\ pc' = "locator"
    /\ UNCHANGED <<args, idx, source, entry, dest, datas, k, central_start,
                   aside>>

\* line 118: the loop over datas is over
CentralEnd ==
    /\ pc = "central" /\ k > Len(datas)
    /\ central_end' = dstPos
    /\ pc' = "eocd64"
    /\ UNCHANGED <<args, idx, source, entry, dest, datas, k, central_start,
                   aside>>

\* a record that counts the paths handled, not the entries collected
WriteZip64EocdCountingPaths ==
    /\ pc = "eocd64"
    /\ \E r \in {Zip64EndOfCentralDirectoryRecord(
                    Len(paths), central_end - central_start, central_start)} :
        /\ dst' = WriteAt(dst, dstPos, r)
        /\ dstPos' = dstPos + Len(r)
        /\ log' = Append(log, [op |-> "eocd64", at |-> dstPos,
                               len |-> Len(r), path |-> 0])
    /\ pc' = "locator"
    /\ UNCHANGED <<args, idx, source, entry, datas, directory, aside>>

\* lines 120-121
WriteZip64Eocd ==
    /\ pc = "eocd64"
    /\ \E r \in {Zip64EndOfCentralDirectoryRecord(
                    Len(datas), central_end - central_start, central_start)} :
        /\ dst' = WriteAt(dst, dstPos, r)
        /\ dstPos' = dstPos + Len(r)
        /\ log' = Append(log, [op |-> "eocd64", at |-> dstPos,
                               len |-> Len(r), path |-> 0])
    /\ pc' = "locator"
    /\ UNCHANGED <<args, idx, source, entry, datas, directory, aside>>

\* a locator that points at the position of fd, behind the record
WriteLocatorAtPosition ==
    /\ pc = "locator"
    /\ \E r \in {Zip64EndOfCentralDirectoryLocator(dstPos)} :
        /\ dst' = WriteAt(dst, dstPos, r)
        /\ dstPos' = dstPos + Len(r)
        /\ log' = Append(log, [op |-> "locator", at |-> dstPos,
                               len |-> Len(r), path |-> 0])
    /\ pc' = "eocd"
    /\ UNCHANGED <<args, idx, source, entry, datas, directory, aside>>

\* lines 123-124
WriteLocator ==
    /\ pc = "locator"
    /\ \E r \in {Zip64EndOfCentralDirectoryLocator(central_end)} :
        /\ dst' = WriteAt(dst, dstPos, r)
        /\ dstPos' = dstPos + Len(r)
        /\ log' = Append(log, [op |-> "locator", at |-> dstPos,
                               len |-> Len(r), path |-> 0])
    /\ pc' = "eocd"
    /\ UNCHANGED <<args, idx, source, entry, datas, directory, aside>>

\* lines 126-127
WriteEocd ==
    /\ pc = "eocd"
    /\ \E r \in {ZipEndOfCentralDirectoryRecord} :
        /\ dst' = WriteAt(dst, dstPos, r)
        /\ dstPos' = dstPos + Len(r)
        /\ log' = Append(log, [op |-> "eocd", at |-> dstPos,
                               len |-> Len(r), path |-> 0])
    /\ pc' = "done"
    /\ UNCHANGED <<args, idx, source, entry, datas, directory, aside>>

\* lines 117, 121, 124, 127: os.write raises
TrailerWriteFail ==
    /\ \/ pc = "central" /\ k <= Len(datas)
       \/ pc \in {"eocd64", "locator", "eocd"}
    /\ Raise("write")
    /\ UNCHANGED <<inputs, idx, srcPos, length, data, entry, dest, datas,
                   directory, aside>>

(***************************************************************************)
(* The run.  Step is what execute does when the environment fails no call: *)
(* every outcome in it is settled by the inputs (a path that does not      *)
(* exist, a field that does not fit its header slot), but for the answer   *)
(* to the clone request.  Fault is a call failed by the environment        *)
(* (EACCES, EIO, ENOSPC, ...).                                             *)
(***************************************************************************)
Step ==
    \/ LstatFail
    \/ SkipNonRegular
    \/ OpenSource
    \/ CrcRead
    \/ WriteHeader
    \/ HeaderPackFail
    \/ CloneGranted
    \/ CloneRejected
    \/ CopyChunk
    \/ CloseSource
    \/ CentralStart
    \/ WriteCentral
    \/ CentralEnd
    \/ WriteZip64Eocd
    \/ WriteLocator
    \/ WriteEocd

Fault ==
    \/ OpenFail
    \/ CrcReadFail
    \/ HeaderWriteFail
    \/ CopyFail
    \/ TrailerWriteFail

Next == Step \/ Fault

Spec == Init /\ [][Next]_vars

\* the interpreter runs the single thread on: a step that can be taken is
\* taken; the environment is not bound to fail a call
FairSpec == Spec /\ WF_vars(Step)

(***************************************************************************)
(* The functions of the program called by themselves, on inputs drawn from *)
(* bounded sets.  The run of execute is idle meanwhile.                    *)
(***************************************************************************)
\* the state of execute while a function is called by itself
ExecuteIdle ==
    /\ paths = <<>>
    /\ idx = 1
    /\ openFds = {}
    /\ srcPos = 0
    /\ length = 0
    /\ data = <<>>
    /\ crc = CrcZero
    /\ header = <<>>
    /\ offset = 0
    /\ cloned = FALSE
    /\ dst = <<>>
    /\ dstPos = 0
    /\ datas = <<>>
    /\ k = 1
    /\ central_start = 0
    /\ central_end = 0
    /\ err = "none"
    /\ log = <<>>

\* the local times get_dos_date_time is called on: the ends and the middle
\* of every field's range, and the years next to the range of the format
DosTimes ==
    {Tm(y, mo, d, h, mi, s) :
        y \in {1979, 1980, 1981, 2043, 2044, 2107, 2108},
        mo \in 1 .. 12,
        d \in {1, 15, 16, 31},
        h \in {0, 15, 16, 23},
        mi \in {0, 31, 32, 59},
        s \in {0, 1, 58, 59}}

DosInit ==
    /\ ExecuteIdle
    /\ alignment = 1
    /\ ChunkIdle
    /\ PlaceIdle
    /\ mtime \in DosTimes
    /\ dosDateTime = <<0, 0>>
    /\ pc = "get_dos_date_time"

\* lines 48-54
DosReturn ==
    /\ pc = "get_dos_date_time"
    /\ dosDateTime' = get_dos_date_time(mtime)
    /\ pc' = "returned"
    /\ UNCHANGED <<args, idx, source, entry, dest, datas, directory, mtime,
                   iter, yielded, place>>

DosNext == DosReturn

DosSpec == DosInit /\ [][DosNext]_vars

\* chunk_iterator(fd, position, length) on an open regular file: every
\* position up to the size lstat reports, every length up to that size
ChunkInit ==
    /\ \E f \in {g \in FileSystem : S_ISREG(g)} :
        /\ paths = <<f.name>>
        /\ iter \in [position : 0 .. f.st_size, length : 0 .. f.st_size]
    /\ alignment = 1
    /\ idx = 1
    /\ openFds = {1}
    /\ srcPos = 0
    /\ length = iter.length
    /\ data = <<>>
    /\ crc = CrcZero
    /\ header = <<>>
    /\ offset = 0
    /\ cloned = FALSE
    /\ dst = <<>>
    /\ dstPos = 0
    /\ datas = <<>>
    /\ k = 1
    /\ central_start = 0
    /\ central_end = 0
    /\ err = "none"
    /\ log = <<>>
    /\ DosIdle
    /\ PlaceIdle
    /\ yielded = <<>>
    /\ pc = "chunk_iterator"

\* line 24
ChunkSeek ==
    /\ pc = "chunk_iterator"
    /\ srcPos' = iter.position
    /\ pc' = "reading"
    /\ UNCHANGED <<args, idx, openFds, length, data, entry, dest, datas,
                   directory, dos, iter, yielded, place>>

\* lines 25-30: one turn of the loop
ChunkRead ==
    /\ pc = "reading"
    /\ length # 0
    /\ \E n \in ReadSizes :
        /\ data' = ReadAt(st.data, srcPos, n)
        /\ srcPos' = srcPos + n
        /\ length' = length - n
        /\ yielded' = IF n = 0 THEN yielded ELSE Append(yielded, data')
    /\ UNCHANGED <<args, pc, idx, openFds, entry, dest, datas, directory, dos,
                   iter, place>>

\* line 25: length is 0, the generator is exhausted
ChunkReturn ==
    /\ pc = "reading"
    /\ length = 0
    /\ pc' = "exhausted"
    /\ UNCHANGED <<args, idx, source, entry, dest, datas, directory, aside>>

ChunkNext == ChunkSeek \/ ChunkRead \/ ChunkReturn

ChunkSpec == ChunkInit /\ [][ChunkNext]_vars

(***************************************************************************)
(* The placement of lines 91-106 on a destination of any size.  Of the     *)
(* destination only the extent is kept (end of file, position of fd, the   *)
(* regions written), of a file only the length of its local header and its *)
(* size, so that a file can be as large as a sparse file is.               *)
(***************************************************************************)
\* the lengths of the local headers of the regular files
HeaderLengths ==
    {Len(make_file_header(f.name, f, CrcZero)) :
        f \in {g \in FileSystem : S_ISREG(g) /\ PackFits(g.name, g)}}

\* st_size of the files placed: empty, one byte, and a sparse file of 8 PiB
\* and one byte (2^53 + 1)
FileSizes == {<<>>, <<1>>, WAdd[WShiftLeft[<<1>>, Mantissa], <<1>>]}

PlaceInit ==
    /\ ExecuteIdle
    /\ alignment \in Alignments
    /\ DosIdle
    /\ ChunkIdle
    /\ PlaceIdle
    /\ pc = "place"

\* lines 91-97: the header of the next file is placed and written
PlaceHeader ==
    /\ pc = "place"
    /\ idx <= MaxPaths
    /\ \E hlen \in HeaderLengths, size \in FileSizes :
        \E at \in {AlignOffsetWide[wEof, hlen, alignment]} :
            /\ wEntry' = [hlen |-> hlen, size |-> size, offset |-> at]
            /\ wLog' = Append(wLog, [op |-> "header", at |-> at,
                                     len |-> ToWide[hlen], eof |-> wEof])
            /\ wPos' = WAdd[at, ToWide[hlen]]
            /\ wEof' = WMax(wEof, WAdd[at, ToWide[hlen]])
    /\ pc' = "data"
    /\ UNCHANGED <<args, idx, source, entry, dest, datas, directory, dos,
                   iter, yielded>>

\* lines 100-102: the clone is granted; the position of fd stays
PlaceClone ==
    /\ pc = "data"
    /\ \E at \in {WAdd[wEntry.offset, ToWide[wEntry.hlen]]} :
        /\ wLog' = Append(wLog, [op |-> "clone", at |-> at,
                                 len |-> wEntry.size, eof |-> wEof])
        /\ wEof' = WMax(wEof, WAdd[at, wEntry.size])
    /\ idx' = idx + 1
    /\ pc' = "place"
    /\ UNCHANGED <<args, source, entry, dest, datas, directory, dos, iter,
                   yielded, wPos, wEntry>>

\* lines 103-106: the clone is rejected; write_all writes the file at the
\* position of fd
PlaceCopy ==
    /\ pc = "data"
    /\ wLog' = Append(wLog, [op |-> "copy", at |-> wPos,
                             len |-> wEntry.size, eof |-> wEof])
    /\ wPos' = WAdd[wPos, wEntry.size]
    /\ wEof' = WMax(wEof, WAdd[wPos, wEntry.size])
    /\ idx' = idx + 1
    /\ pc' = "place"
    /\ UNCHANGED <<args, source, entry, dest, datas, directory, dos, iter,
                   yielded, wEntry>>

PlaceNext == PlaceHeader \/ PlaceClone \/ PlaceCopy

PlaceSpec == PlaceInit /\ [][PlaceNext]_vars

(***************************************************************************)
(* Vocabulary of the properties.                                           *)
(***************************************************************************)
Phase ==
    CASE pc \in {"lstat", "crc", "header", "clone", "copy", "close"} -> "Collecting"
      [] pc = "central" -> "WritingDirectory"
      [] pc \in {"eocd64", "locator", "eocd"} -> "WritingTrailer"
      [] pc = "done" -> "Done"
      [] OTHER -> "Aborted"

EventsOf(ops) == SelectSeq(log, LAMBDA e : e.op \in ops)

HeaderEvents == EventsOf({"header"})

CentralEvents == EventsOf({"central"})

\* the regular files among the first n paths, in the caller's order
AcceptedUpTo(n) == SelectSeq(SubSeq(paths, 1, n), LAMBDA p : S_ISREG(lstat(p)))

Accepted == AcceptedUpTo(Len(paths))

\* the checksum of a whole file, in one piece
FileCrc(path) == crc32(lstat(path).data, CrcZero)

\* the entry execute should hold for a file whose header went to offset at
EntryOf(path, at) ==
    [path |-> path, st |-> lstat(path), crc |-> FileCrc(path), offset |-> at]

\* the local header a file should get
LocalHeaderOf(path) == make_file_header(path, lstat(path), FileCrc(path))

\* the history positions at which the data of an entry starts to be placed:
\* a granted clone, or the first write of a copy
DataStarts ==
    {i \in 1 .. Len(log) :
        \/ log[i].op = "clone"
        \/ log[i].op = "copy" /\ log[i - 1].op = "rejected"}

(***************************************************************************)
(* C1: for every archived entry, whatever was archived before it and for   *)
(* every alignment, the offset where the entry's data begins is a multiple *)
(* of the alignment, and that offset minus the length of the local header  *)
(* is the header offset recorded for the entry, which is where the local   *)
(* header was written.                                                     *)
(***************************************************************************)
C1_DataStartAligned ==
    /\ Len(HeaderEvents) >= Len(datas)
    /\ \A j \in 1 .. Len(datas) :
        LET h == HeaderEvents[j]
        IN  /\ datas[j].offset = h.at
            /\ (datas[j].offset + h.len) % alignment = 0
            /\ ReadAt(dst, h.at, h.len) = LocalHeaderOf(datas[j].path)
            /\ ReadAt(dst, h.at + h.len, datas[j].st.st_size)
                 = datas[j].st.data
    /\ \A i \in DataStarts :
        /\ log[i].at % alignment = 0
        /\ \E j \in 1 .. Len(HeaderEvents) :
            /\ HeaderEvents[j].path = log[i].path
            /\ log[i].at - HeaderEvents[j].len = HeaderEvents[j].at
        /\ log[i].path = idx => log[i].at - Len(header) = offset

\* two entries under an alignment that is no power of two, the second one
\* placed after a gap
C1_Witness ==
    /\ alignment = 3
    /\ Len(datas) = 2
    /\ datas[1].st.st_size > 0
    /\ datas[2].offset
         > datas[1].offset + HeaderEvents[1].len + datas[1].st.st_size

(***************************************************************************)
(* The archive as a function of the inputs alone: no clone-or-copy choice  *)
(* enters it.                                                              *)
(***************************************************************************)
\* the destination after the first n of files are placed, each header behind
\* the alignment gap and each file's bytes right behind its header
RECURSIVE LayoutFile(_, _)
LayoutFile(files, n) ==
    IF n = 0 THEN <<>>
    ELSE LET f == LayoutFile(files, n - 1)
             h == LocalHeaderOf(files[n])
             at == AlignOffset(Len(f), Len(h), alignment)
         IN  WriteAt(WriteAt(f, at, h), at + Len(h), lstat(files[n]).data)

\* the header offset of the n-th of files
LayoutOffset(files, n) ==
    AlignOffset(Len(LayoutFile(files, n - 1)), Len(LocalHeaderOf(files[n])),
                alignment)

LayoutEntries(files) ==
    [n \in 1 .. Len(files) |-> EntryOf(files[n], LayoutOffset(files, n))]

RECURSIVE LayoutDirectory(_, _)
LayoutDirectory(files, n) ==
    IF n = 0 THEN <<>>
    ELSE LayoutDirectory(files, n - 1)
         \o make_central_header(files[n], lstat(files[n]), FileCrc(files[n]),
                                LayoutOffset(files, n))

LayoutArchive(files) ==
    LET body == LayoutFile(files, Len(files))
        cd == LayoutDirectory(files, Len(files))
    IN  body \o cd
        \o Zip64EndOfCentralDirectoryRecord(Len(files), Len(cd), Len(body))
        \o Zip64EndOfCentralDirectoryLocator(Len(body) + Len(cd))
        \o ZipEndOfCentralDirectoryRecord

(***************************************************************************)
(* C2: clone-then-fallback equivalence.  For the same input files and the  *)
(* same alignment, whichever files were cloned and whichever were copied,  *)
(* the run arrives at the same bytes: between two files the destination    *)
(* and the collected entries, and at the end the whole archive (header     *)
(* offsets, data regions, central directory, trailer, length), are those   *)
(* that the inputs alone determine; and a fallback copy starts writing at  *)
(* header offset + header length.                                          *)
(***************************************************************************)
C2_CloneCopyEquivalent ==
    /\ pc = "lstat" =>
        /\ datas = LayoutEntries(AcceptedUpTo(idx - 1))
        /\ dst = LayoutFile(AcceptedUpTo(idx - 1), Len(datas))
    /\ pc = "done" => dst = LayoutArchive(Accepted)
    /\ \A i \in 1 .. Len(log) :
        log[i].op = "rejected" =>
            /\ log[i - 1].op = "header"
            /\ log[i].at = log[i - 1].at + log[i - 1].len
            /\ i < Len(log) /\ log[i + 1].op = "copy" => log[i + 1].at = log[i].at

\* a finished archive of two files with data, one cloned, the other copied in
\* more than one chunk
C2_Witness ==
    /\ pc = "done"
    /\ Len(datas) = 2
    /\ \E i \in 1 .. Len(log) : log[i].op = "clone" /\ log[i].len > 0
    /\ Len(EventsOf({"copy"})) >= 2

(***************************************************************************)
(* C3: in a finished run local headers and central headers correspond one  *)
(* to one: the i-th central header is that of the i-th regular file of the *)
(* input sequence, its 64-bit offset field is the offset at which that     *)
(* file's local header was written, and local headers (by increasing       *)
(* offset) and central headers both follow the caller's order, also when a *)
(* path is listed twice.                                                   *)
(***************************************************************************)
\* the last 8 bytes of a central header: the offset of the ZIP64 extra field
CentralOffsetField(c) == FromLE(ReadAt(dst, c.at + c.len - 8, 8))

C3_DirectoryMatchesHeaders ==
    pc = "done" =>
        /\ Len(HeaderEvents) = Len(Accepted)
        /\ Len(CentralEvents) = Len(Accepted)
        /\ \A i \in 1 .. Len(Accepted) :
            LET h == HeaderEvents[i]
                c == CentralEvents[i]
            IN  /\ ReadAt(dst, h.at, h.len) = LocalHeaderOf(Accepted[i])
                /\ ReadAt(dst, c.at, c.len)
                     = make_central_header(Accepted[i], lstat(Accepted[i]),
                                           FileCrc(Accepted[i]), h.at)
                /\ CentralOffsetField(c) = h.at
                /\ i > 1 => /\ HeaderEvents[i - 1].at < h.at
                            /\ CentralEvents[i - 1].at < c.at

\* [big, small]: a finished archive whose first file is the larger one
C3_Witness ==
    /\ pc = "done"
    /\ Len(datas) = 2
    /\ datas[1].st.st_size > datas[2].st.st_size

\* the same path listed twice, both archived
C3_WitnessTwice ==
    /\ pc = "done"
    /\ Len(datas) = 2
    /\ datas[1].path = datas[2].path

(***************************************************************************)
(* C4: in every finished archive the entry count of the ZIP64 end of       *)
(* central directory record, in its "this disk" and in its "total" slot,   *)
(* is the number of central headers written, which is the number of input  *)
(* paths that were regular files; skipped paths add nothing.               *)
(***************************************************************************)
Zip64EocdAt == EventsOf({"eocd64"})[1].at

C4_EntryCount ==
    pc = "done" =>
        /\ FromLE(ReadAt(dst, Zip64EocdAt + 24, 8)) = Len(CentralEvents)
        /\ FromLE(ReadAt(dst, Zip64EocdAt + 32, 8)) = Len(CentralEvents)
        /\ Len(CentralEvents) = Len(Accepted)
        /\ Len(CentralEvents)
             = Cardinality({i \in 1 .. Len(paths) : S_ISREG(lstat(paths[i]))})

\* a finished archive of one file, the other path having been skipped
C4_Witness ==
    /\ pc = "done"
    /\ Len(paths) = 2
    /\ Len(datas) = 1

(***************************************************************************)
(* C5: a run that finishes passes through Collecting, WritingDirectory,    *)
(* WritingTrailer and Done in that order, skipping and re-entering none:   *)
(* no central header is written before the last input path was handled, no *)
(* trailer record before the last central header, and the trailer is       *)
(* written once, after all entry data, as ZIP64 EOCD record, ZIP64         *)
(* locator, legacy EOCD record.                                            *)
(***************************************************************************)
PhaseSuccessor ==
    [Collecting |-> "WritingDirectory", WritingDirectory |-> "WritingTrailer",
     WritingTrailer |-> "Done", Done |-> "Done", Aborted |-> "Aborted"]

TrailerOrder == <<"eocd64", "locator", "eocd">>

EntryOps == {"header", "clone", "rejected", "copy"}

TrailerEvents == EventsOf({"eocd64", "locator", "eocd"})

C5_PhaseStep ==
    \/ Phase' = Phase
    \/ Phase' = PhaseSuccessor[Phase]
    \/ Phase' = "Aborted" /\ Phase # "Done"

C5_LogOrdered ==
    \* the history is entry events, then central headers, then the trailer
    /\ \A i, j \in 1 .. Len(log) :
        i < j =>
            /\ log[i].op = "central" => log[j].op \notin EntryOps
            /\ log[i].op \in {"eocd64", "locator", "eocd"}
                 => log[j].op \notin EntryOps \cup {"central"}
    /\ Len(TrailerEvents) <= 3
    /\ \A i \in 1 .. Len(TrailerEvents) : TrailerEvents[i].op = TrailerOrder[i]
    \* what is on disk tells the phase
    /\ Phase = "Collecting" => CentralEvents = <<>> /\ TrailerEvents = <<>>
    /\ Phase = "WritingDirectory" => TrailerEvents = <<>>
    /\ CentralEvents # <<>> => idx > Len(paths)
    /\ TrailerEvents # <<>> => Len(CentralEvents) = Len(datas)
    /\ Phase = "Done" => Len(TrailerEvents) = 3
    \* the trailer lies behind everything else, its records back to back
    /\ \A i \in 1 .. Len(TrailerEvents) :
        /\ \A j \in 1 .. Len(log) :
            log[j].op \in EntryOps \cup {"central"}
              => log[j].at + log[j].len <= TrailerEvents[i].at
        /\ i > 1 => TrailerEvents[i].at
                      = TrailerEvents[i - 1].at + TrailerEvents[i - 1].len

C5_PhaseOrder == [](C5_LogOrdered) /\ [][C5_PhaseStep]_vars

\* a finished run over two files
C5_Witness ==
    /\ Phase = "Done"
    /\ Len(HeaderEvents) = 2
    /\ Len(CentralEvents) = 2
    /\ Len(TrailerEvents) = 3

(***************************************************************************)
(* C6: when opening or reading a source file or writing the destination    *)
(* fails during Collecting (a read failure of the fallback copy included), *)
(* the run aborts at once: no later path is handled, no central header and *)
(* no trailer record is ever written, and the bytes already in the         *)
(* destination stay as they are.                                           *)
(***************************************************************************)
\* the failing call was made while collecting
FailedCollecting == err # "none" /\ idx <= Len(paths)

C6_Aborted ==
    FailedCollecting =>
        /\ pc = "aborted"
        /\ CentralEvents = <<>>
        /\ TrailerEvents = <<>>
        \* nothing of a later path: the entries are those before the failing
        \* path and every event is of a path up to it
        /\ Len(datas) = Len(AcceptedUpTo(idx - 1))
        /\ \A i \in 1 .. Len(log) : log[i].path <= idx
        /\ dst = LayoutFile(AcceptedUpTo(idx - 1), Len(datas))
           \/ /\ HeaderEvents # <<>>
              /\ HeaderEvents[Len(HeaderEvents)].path = idx

C6_FailingStep ==
    err = "none" /\ err' # "none" => dst' = dst /\ datas' = datas /\ idx' = idx

C6_AfterAbort ==
    err # "none" => UNCHANGED <<pc, idx, dst, dstPos, datas, log, err>>

C6_AbortsAtOnce ==
    [](C6_Aborted) /\ [][C6_FailingStep /\ C6_AfterAbort]_vars

\* the copy of the second file failed on a read after one chunk was written,
\* with the first file and the second header on disk
C6_Witness ==
    /\ pc = "aborted"
    /\ err = "read"
    /\ idx = 2
    /\ Len(datas) = 1
    /\ log[Len(log)].op = "copy"

(***************************************************************************)
(* C7: a rejected clone request never aborts the run and is no error: the  *)
(* file's data is written by the streamed copy, the entry is recorded with *)
(* the same header offset, and the run goes on with the next path and, no  *)
(* other call failing, ends Done with the entry in the central directory.  *)
(***************************************************************************)
\* the entries, in order of collection, whose clone was rejected
RejectedEntries ==
    {j \in 1 .. Min(Len(datas), Len(HeaderEvents)) :
        \E i \in 1 .. Len(log) :
            log[i].op = "rejected" /\ log[i].path = HeaderEvents[j].path}

C7_Recorded ==
    /\ \A j \in RejectedEntries :
        LET h == HeaderEvents[j]
        IN  /\ datas[j].offset = h.at
            /\ ReadAt(dst, h.at + h.len, datas[j].st.st_size)
                 = lstat(datas[j].path).data
            /\ pc = "done" =>
                 ReadAt(dst, CentralEvents[j].at, CentralEvents[j].len)
                   = make_central_header(datas[j].path, lstat(datas[j].path),
                                         FileCrc(datas[j].path), h.at)
    \* a rejection alone never ends the run: the file is being copied or
    \* about to be recorded (unless a read or write of the copy failed), or
    \* it has been recorded
    /\ \A i \in 1 .. Len(log) :
        log[i].op = "rejected" =>
            /\ log[i].path = idx =>
                 \/ pc \in {"copy", "close"} /\ err = "none"
                 \/ pc = "aborted" /\ err \in {"read", "write"}
            /\ log[i].path < idx =>
                 \E j \in RejectedEntries : HeaderEvents[j].path = log[i].path

C7_RejectionStep ==
    (Len(log') = Len(log) + 1 /\ log'[Len(log')].op = "rejected") =>
        /\ err' = "none"
        /\ pc' = IF st.st_size = 0 THEN "close" ELSE "copy"
        /\ offset' = offset /\ header' = header /\ dst' = dst
        /\ idx' = idx /\ datas' = datas

C7_RejectedCloneRecovered == [](C7_Recorded) /\ [][C7_RejectionStep]_vars

\* a finished archive whose second file was copied after a rejected clone
C7_Witness ==
    /\ pc = "done"
    /\ 2 \in RejectedEntries
    /\ datas[2].st.st_size > 0

(***************************************************************************)
(* C8: source descriptors are scoped per file.  At most one is open; it is *)
(* opened only for a path accepted as a regular file and closed before the *)
(* next path is handled, on success and on every failure; none is open     *)
(* when the run is Done or has aborted.                                    *)
(***************************************************************************)
C8_DescriptorScoped ==
    /\ Cardinality(openFds) <= 1
    /\ openFds \subseteq {idx}
    /\ openFds # {} =>
        /\ pc \in {"crc", "header", "clone", "copy", "close"}
        /\ idx <= Len(paths) /\ S_ISREG(st)
    /\ pc \in {"crc", "header", "clone", "copy", "close"} => openFds = {idx}
    /\ pc \in {"lstat", "central", "eocd64", "locator", "eocd", "done",
               "aborted"} => openFds = {}

\* the run aborted on a failed header write for the second file, after the
\* first was archived
C8_Witness ==
    /\ pc = "aborted"
    /\ err = "write"
    /\ idx = 2
    /\ Len(datas) = 1
    /\ openFds = {}

(***************************************************************************)
(* C9: for every finite path list a run eventually completes (Done) or     *)
(* aborts on the first error; it never stays in Collecting for ever.       *)
(***************************************************************************)
C9_Terminates == <>(pc \in {"done", "aborted"})

\* where a run stays: chunk_iterator at the end of a file that is shorter
\* than st_size, its last read empty and length still to go
C9_Spinning ==
    /\ pc = "crc"
    /\ length > 0
    /\ srcPos = Len(st.data)
    /\ data = <<>>

(***************************************************************************)
(* C10: a path that is no regular file is no error and changes nothing:    *)
(* destination bytes and length, collected entries and open descriptors    *)
(* stay as they are, no source file is opened, and the run goes on with    *)
(* the next path.                                                          *)
(***************************************************************************)
AtNonRegular ==
    /\ pc = "lstat" /\ idx <= Len(paths)
    /\ st.kind \in {"dir", "lnk"}

C10_SkipStep ==
    AtNonRegular =>
        /\ dst' = dst /\ dstPos' = dstPos /\ log' = log
        /\ datas' = datas
        /\ openFds' = openFds /\ openFds = {}
        /\ err' = "none"
        /\ pc' = "lstat"
        /\ idx' = idx + 1

C10_SkipChangesNothing == [][C10_SkipStep]_vars

\* a directory or symlink was passed over after one file was archived
C10_Witness ==
    /\ pc = "lstat"
    /\ idx = 3
    /\ lstat(paths[2]).kind \in {"dir", "lnk"}
    /\ Len(datas) = 1
    /\ err = "none"

(***************************************************************************)
(* C11: archiving zero files (an empty path list, or only paths that are   *)
(* no regular files) into the empty destination still ends with the full   *)
(* trailer and nothing else: a ZIP64 end of central directory record with  *)
(* entry count 0 in both slots, directory size 0 and directory offset 0,   *)
(* then the ZIP64 locator, then the legacy record; no local header and no  *)
(* central header is written at any time.                                  *)
(***************************************************************************)
\* a field of n bytes at offset at of the destination
Field(at, n) == FromLE(ReadAt(dst, at, n))

C11_EmptyArchive ==
    Accepted = <<>> =>
        /\ HeaderEvents = <<>>
        /\ CentralEvents = <<>>
        /\ datas = <<>>
        /\ pc = "done" =>
            /\ Len(dst) = 56 + 20 + 22
            \* the ZIP64 record: signature 0x06064b50, 44 bytes follow
            /\ Field(0, 4) = 101075792
            /\ Field(4, 8) = 44
            /\ Field(24, 8) = 0
            /\ Field(32, 8) = 0
            /\ Field(40, 8) = 0
            /\ Field(48, 8) = 0
            \* the locator: signature 0x07064b50, the record is at 0, one disk
            /\ Field(56, 4) = 117853008
            /\ Field(64, 8) = 0
            /\ Field(72, 4) = 1
            \* the legacy record: signature 0x06054b50, all sentinels
            /\ Field(76, 4) = 101010256
            /\ ReadAt(dst, 84, 2) = Sentinel16
            /\ ReadAt(dst, 86, 2) = Sentinel16
            /\ ReadAt(dst, 88, 4) = Sentinel32
            /\ ReadAt(dst, 92, 4) = Sentinel32
            /\ Field(96, 2) = 0
            /\ [i \in 1 .. 3 |-> TrailerEvents[i].at] = <<0, 56, 76>>

\* a finished run over two paths, a directory and a symlink
C11_Witness ==
    /\ pc = "done"
    /\ Len(paths) = 2
    /\ Accepted = <<>>
    /\ Len(dst) = 98

\* a finished run over the empty path list
C11_WitnessNoPaths ==
    /\ pc = "done"
    /\ paths = <<>>
    /\ Len(dst) = 98

(***************************************************************************)
(* C14: in every finished archive the trailer's offsets agree with the     *)
(* bytes on disk, whether the last entry was cloned or copied.  The        *)
(* directory offset of the ZIP64 record is the offset of the first central *)
(* header, which is the end of the last entry's data (0 for no entries);   *)
(* its directory size is the sum of the lengths of the central headers     *)
(* written; the ZIP64 record begins right behind the last central header;  *)
(* and the locator's offset field is the offset where the ZIP64 record     *)
(* begins.                                                                 *)
(***************************************************************************)
RECURSIVE SumOfLengths(_, _)
SumOfLengths(events, n) ==
    IF n = 0 THEN 0 ELSE SumOfLengths(events, n - 1) + events[n].len

\* where the data of the last entry ends
EndOfEntries ==
    IF datas = <<>> THEN 0
    ELSE LET h == HeaderEvents[Len(datas)]
         IN  h.at + h.len + datas[Len(datas)].st.st_size

LocatorAt == EventsOf({"locator"})[1].at

C14_TrailerOffsets ==
    pc = "done" =>
        LET n == Len(CentralEvents)
        IN  /\ n = Len(datas)
            /\ Field(Zip64EocdAt, 4) = 101075792
            /\ Field(Zip64EocdAt + 48, 8) = EndOfEntries
            /\ n > 0 => CentralEvents[1].at = EndOfEntries
            /\ \A i \in 1 .. n :
                Field(CentralEvents[i].at, 4) = 33639248
            /\ Field(Zip64EocdAt + 40, 8) = SumOfLengths(CentralEvents, n)
            /\ Zip64EocdAt = EndOfEntries + SumOfLengths(CentralEvents, n)
            /\ n > 0 => Zip64EocdAt = CentralEvents[n].at + CentralEvents[n].len
            /\ Field(LocatorAt, 4) = 117853008
            /\ Field(LocatorAt + 8, 8) = Zip64EocdAt

\* a finished archive whose last entry has data and was cloned: the position
\* of fd was left behind the header
C14_Witness ==
    /\ pc = "done"
    /\ Len(datas) = 2
    /\ datas[2].st.st_size > 0
    /\ cloned

\* a finished archive whose last entry was copied
C14_WitnessCopied ==
    /\ pc = "done"
    /\ Len(datas) = 2
    /\ datas[2].st.st_size > 0
    /\ ~cloned

(***************************************************************************)
(* C15: for each archived file the steps come in the fixed order checksum  *)
(* pass, local header write, clone request, and only then possibly a       *)
(* streamed copy.  The checksum pass over the whole file is complete       *)
(* before any byte of the file's local header is written; exactly one      *)
(* clone request is issued per file, before any data byte of the file is   *)
(* copied; the copy runs only after that request was rejected; and no file *)
(* is both cloned and copied.                                              *)
(***************************************************************************)
\* what was done to the destination for the path at index p, in order
EntryEventsOf(p) ==
    SelectSeq(log, LAMBDA e : e.op \in EntryOps /\ e.path = p)

\* the clone requests, granted or rejected, made for the path at index p
CloneRequestsOf(p) ==
    SelectSeq(log, LAMBDA e : e.op \in {"clone", "rejected"} /\ e.path = p)

C15_EntryOrdered ==
    /\ \A p \in 1 .. Len(paths) :
        LET ev == EntryEventsOf(p)
        IN  /\ ev # <<>> => ev[1].op = "header"
            /\ Len(ev) >= 2 => ev[2].op \in {"clone", "rejected"}
            /\ \A i \in 3 .. Len(ev) :
                ev[i].op = "copy" /\ ev[2].op = "rejected"
            /\ Len(CloneRequestsOf(p)) <= 1
            \* a file that was recorded had its one request
            /\ (p < idx /\ S_ISREG(lstat(paths[p])) /\ err = "none")
                 => Len(CloneRequestsOf(p)) = 1
            \* nothing is done for a path before the loop is at it
            /\ p > idx => ev = <<>>
    \* while the checksum pass runs nothing of the file is in the destination
    /\ pc \in {"crc", "header"} => EntryEventsOf(idx) = <<>>
    /\ pc = "clone" => Len(EntryEventsOf(idx)) = 1
    /\ pc = "copy" =>
        /\ Len(CloneRequestsOf(idx)) = 1
        /\ CloneRequestsOf(idx)[1].op = "rejected"
    /\ pc = "close" =>
        /\ Len(CloneRequestsOf(idx)) = 1
        /\ cloned <=> CloneRequestsOf(idx)[1].op = "clone"
        /\ cloned => Len(EntryEventsOf(idx)) = 2

\* the step that writes a local header finds the whole file read and summed
C15_HeaderStep ==
    (Len(log') = Len(log) + 1 /\ log'[Len(log')].op = "header") =>
        /\ pc = "header"
        /\ length = 0
        /\ srcPos = st.st_size
        /\ crc = FileCrc(paths[idx])
        /\ crc' = crc

\* the step that copies data finds the clone request rejected
C15_CopyStep ==
    (Len(log') = Len(log) + 1 /\ log'[Len(log')].op = "copy") =>
        /\ pc = "copy"
        /\ log[Len(log)].op \in {"rejected", "copy"}
        /\ log[Len(log)].path = idx

C15_StepOrder ==
    [](C15_EntryOrdered) /\ [][C15_HeaderStep /\ C15_CopyStep]_vars

\* a file of three bytes summed in more than one read, its header written,
\* its clone rejected and its data copied in more than one chunk
C15_Witness ==
    /\ pc = "close"
    /\ st.st_size = 3
    /\ ~cloned
    /\ Len(EntryEventsOf(idx)) >= 4
    /\ crc = FileCrc(paths[idx])

(***************************************************************************)
(* C17: for every entry of a finished archive the local header and the     *)
(* central header carry the same metadata: the same name bytes and name    *)
(* length, the same checksum, the same size (written twice, as             *)
(* uncompressed and compressed size, in the 64-bit extension field) and    *)
(* the same DOS date and time; and, the source files staying as they are   *)
(* during the run, that checksum is the checksum of the bytes that occupy  *)
(* the entry's data region.                                                *)
(***************************************************************************)
\* the fields of the local header at offset at, read back from the
\* destination (ZipFileHeader '<IHHHHHIIIHH', name, '<HHQQ')
LocalFields(at) ==
    LET n == Field(at + 26, 2)
    IN  [signature |-> Field(at, 4),
         time |-> Field(at + 10, 2),
         date |-> Field(at + 12, 2),
         crc |-> ReadAt(dst, at + 14, 4),
         sizes32 |-> ReadAt(dst, at + 18, 8),
         namelen |-> n,
         name |-> ReadAt(dst, at + 30, n),
         size |-> Field(at + 30 + n + 4, 8),
         csize |-> Field(at + 30 + n + 12, 8)]

\* the same fields of the central header at offset at
\* (ZipCentralDirectoryFileHeader '<IHHHHHHIIIHHHHHII', name, '<HHQQQ')
CentralFields(at) ==
    LET n == Field(at + 28, 2)
    IN  [signature |-> Field(at, 4),
         time |-> Field(at + 12, 2),
         date |-> Field(at + 14, 2),
         crc |-> ReadAt(dst, at + 16, 4),
         sizes32 |-> ReadAt(dst, at + 20, 8),
         namelen |-> n,
         name |-> ReadAt(dst, at + 46, n),
         size |-> Field(at + 46 + n + 4, 8),
         csize |-> Field(at + 46 + n + 12, 8)]

C17_SameMetadata ==
    pc = "done" =>
        /\ Len(HeaderEvents) = Len(datas)
        /\ Len(CentralEvents) = Len(datas)
        /\ \A i \in 1 .. Len(datas) :
            LET h == HeaderEvents[i]
                l == LocalFields(h.at)
                c == CentralFields(CentralEvents[i].at)
            IN  /\ l.signature = 67324752
                /\ c.signature = 33639248
                /\ [f \in DOMAIN l \ {"signature"} |-> l[f]]
                     = [f \in DOMAIN c \ {"signature"} |-> c[f]]
                /\ l.name = encode(datas[i].path)
                /\ l.namelen = Len(l.name)
                /\ l.size = datas[i].st.st_size
                /\ l.csize = l.size
                /\ l.sizes32 = Sentinel32 \o Sentinel32
                /\ <<l.date, l.time>> = get_dos_date_time(datas[i].st.tm)
                /\ l.crc = CrcField(crc32(ReadAt(dst, h.at + h.len, l.size),
                                          CrcZero))

\* a finished archive of two files, one of them read in more than one chunk,
\* one under a name that is longer in bytes than in characters
C17_Witness ==
    /\ pc = "done"
    /\ Len(datas) = 2
    /\ \E i \in 1 .. 2 : datas[i].st.st_size > ChunkSize
    /\ \E i \in 1 .. 2 : Len(encode(datas[i].path)) > Len(datas[i].path)

(***************************************************************************)
(* C18: for every local time with year in 1980..2107, month 1..12, day     *)
(* 1..31, hour 0..23, minute 0..59 and second 0..59, get_dos_date_time     *)
(* returns a date and a time that each fit in 16 bits, whose bit fields do *)
(* not overlap, and from which year, month, day, hour and minute are       *)
(* recovered exactly and the second rounded down to an even value.         *)
(***************************************************************************)
DosRange ==
    /\ mtime.tm_year \in 1980 .. 2107
    /\ mtime.tm_mon \in 1 .. 12
    /\ mtime.tm_mday \in 1 .. 31
    /\ mtime.tm_hour \in 0 .. 23
    /\ mtime.tm_min \in 0 .. 59
    /\ mtime.tm_sec \in 0 .. 59

\* bits lo .. lo + n - 1 of x
Bits(x, lo, n) == (x \div (2 ^ lo)) % (2 ^ n)

C18_DosDateTime ==
    (pc = "returned" /\ DosRange) =>
        LET d == dosDateTime[1]
            t == dosDateTime[2]
        IN  /\ d \in 0 .. 65535
            /\ t \in 0 .. 65535
            \* date: year - 1980 in bits 9-15, month in bits 5-8, day in 0-4
            /\ 1980 + Bits(d, 9, 7) = mtime.tm_year
            /\ Bits(d, 5, 4) = mtime.tm_mon
            /\ Bits(d, 0, 5) = mtime.tm_mday
            \* time: hour in bits 11-15, minute in bits 5-10, second / 2 in 0-4
            /\ Bits(t, 11, 5) = mtime.tm_hour
            /\ Bits(t, 5, 6) = mtime.tm_min
            /\ 2 * Bits(t, 0, 5) = mtime.tm_sec - (mtime.tm_sec % 2)
            \* no field reaches into its neighbour: or-ing is adding
            /\ d = (mtime.tm_year - 1980) * 512 + mtime.tm_mon * 32
                     + mtime.tm_mday
            /\ t = mtime.tm_hour * 2048 + mtime.tm_min * 32
                     + (mtime.tm_sec \div 2)

\* the last second of the format: every field at its largest, the second odd
C18_Witness ==
    /\ pc = "returned"
    /\ mtime = Tm(2107, 12, 31, 23, 59, 59)
    /\ dosDateTime = <<65439, 49021>>

(***************************************************************************)
(* C16: for a byte range [position, position + length) that lies inside    *)
(* the file, chunk_iterator yields exactly the bytes of that range, in     *)
(* order: the bytes yielded add up to length (nothing for length 0), every *)
(* chunk yielded is non-empty and no longer than the chunk size, and no    *)
(* byte beyond position + length is read.  An empty read yields no chunk   *)
(* and leaves the remaining length as it is.                               *)
(***************************************************************************)
RECURSIVE Flat(_)
Flat(chunks) == IF chunks = <<>> THEN <<>> ELSE Head(chunks) \o Flat(Tail(chunks))

RangeInside == iter.position + iter.length <= Len(st.data)

C16_Yielded ==
    /\ \A i \in 1 .. Len(yielded) : Len(yielded[i]) \in 1 .. ChunkSize
    /\ (pc \in {"reading", "exhausted"} /\ RangeInside) =>
        LET done == iter.length - length
        IN  /\ length \in 0 .. iter.length
            /\ srcPos = iter.position + done
            /\ Flat(yielded) = ReadAt(st.data, iter.position, done)
            \* inside the range a read is never empty
            /\ (pc = "reading" /\ length > 0) => 0 \notin ReadSizes
            /\ pc = "exhausted" =>
                /\ length = 0
                /\ Len(Flat(yielded)) = iter.length
                /\ Flat(yielded)
                     = ReadAt(st.data, iter.position, iter.length)
                /\ iter.length = 0 => yielded = <<>>

\* a turn of the loop that read nothing
C16_EmptyRead ==
    (pc = "reading" /\ pc' = "reading" /\ srcPos' = srcPos) =>
        /\ data' = <<>>
        /\ yielded' = yielded
        /\ length' = length

C16_ChunkIterator == [](C16_Yielded) /\ [][C16_EmptyRead]_vars

\* the last two of three bytes, yielded as two chunks of one byte
C16_Witness ==
    /\ pc = "exhausted"
    /\ iter = [position |-> 1, length |-> 2]
    /\ yielded = <<<<2>>, <<3>>>>

\* a read that returned nothing, after a chunk was yielded and with length
\* to go
C16_WitnessEmptyRead ==
    /\ pc = "reading"
    /\ yielded # <<>>
    /\ data = <<>>
    /\ length > 0

(***************************************************************************)
(* C12: the header offset computed for an entry is the smallest offset at  *)
(* or after the destination's end of file for which offset + header length *)
(* is a multiple of the alignment A: it is never below the end of file,    *)
(* and the gap (offset minus end of file) is in 0 .. A - 1, for every end  *)
(* of file, header length and positive A.                                  *)
(***************************************************************************)
\* the header placements made so far
WideHeaders == SelectSeq(wLog, LAMBDA e : e.op = "header")

C12_SmallestOffset ==
    \A i \in 1 .. Len(WideHeaders) :
        LET e == WideHeaders[i]
        IN  /\ ~WLess(e.at, e.eof)
            /\ WDivMod[WAdd[e.at, e.len], alignment][2] = 0
            /\ WLess(WSub[e.at, e.eof], ToWide[alignment])

\* where the computation goes wrong: a header placed below the end of file
C12_BelowEndOfFile ==
    \E i \in 1 .. Len(WideHeaders) : WLess(WideHeaders[i].at, WideHeaders[i].eof)

\* a header placed a whole alignment unit too far
C12_GapTooWide ==
    \E i \in 1 .. Len(WideHeaders) :
        LET e == WideHeaders[i]
        IN  /\ ~WLess(e.at, e.eof)
            /\ ~WLess(WSub[e.at, e.eof], ToWide[alignment])

(***************************************************************************)
(* C13: the destination only grows and is never overwritten.  Every write  *)
(* or clone of execute starts at or beyond the end of file of that moment, *)
(* so no byte once written is written again; the regions                   *)
(* [header offset, header offset + header length + size) of any two        *)
(* entries are disjoint; and when an entry is finished the end of file is  *)
(* header offset + header length + size, after a clone and after a copy.   *)
(***************************************************************************)
\* the region of the j-th entry placed: <<first offset, offset behind it>>
WideRegion(j) ==
    LET h == wLog[2 * j - 1]
        d == wLog[2 * j]
    IN  <<h.at, WAdd[WAdd[h.at, h.len], d.len]>>

\* the entries placed and finished
WidePlaced == 1 .. (Len(wLog) \div 2)

C13_GrowsOnly ==
    /\ \A i \in 1 .. Len(wLog) : ~WLess(wLog[i].at, wLog[i].eof)
    /\ \A i, j \in WidePlaced :
        i < j => ~WLess(WideRegion(j)[1], WideRegion(i)[2])
    /\ \A j \in WidePlaced :
        Len(wLog) = 2 * j => wEof = WideRegion(j)[2]

\* two entries placed, the header of the second one over the last byte of
\* the first one's data
C13_Overlap ==
    /\ 2 \in WidePlaced
    /\ WLess(WideRegion(2)[1], WideRegion(1)[2])

=============================================================================
